---- MODULE Spec2Model ----
(***************************************************************************)
(* Model of prrao87/application-graph.                                     *)
(*                                                                         *)
(*   src/clean_data.py   the ID normalizer: main() runs five cleaners in   *)
(*                       sequence over the raw CSV files and writes the    *)
(*                       cleaned CSV files                                 *)
(*   src/create_graph.py the graph loader: Neo4jConnection.run() runs five *)
(*                       write transactions in sequence against the store  *)
(*                                                                         *)
(* A string is a sequence of one-character strings, a CSV file a sequence  *)
(* of rows, a row a function from column names to cell values.  A graph is *)
(* a set of nodes and a set of relationships, each with an id of its own;  *)
(* a node has a label and properties, a relationship a type, the ids of    *)
(* its two end nodes, and properties.                                      *)
(*                                                                         *)
(* Identifier cells are text, as the signatures of clean_data.py have them *)
(* (Dict[str, int], key: str).  session.write_transaction is the driver's: *)
(* one transaction around the function it is given, committed when the     *)
(* function returns and rolled back when it raises.                        *)
(***************************************************************************)
EXTENDS Integers, Sequences, FiniteSets, TLC

VARIABLES
    cell,        \* SpecStrip: the raw identifier cell given to .str.replace
    stripped,    \* SpecStrip: the cell after one .str.replace("nr:", "")
    twice,       \* SpecStrip: the cell after a second .str.replace("nr:", "")
    raw,         \* the raw CSV files (graph_data/), by logical file name
    out,         \* the cleaned CSV files (graph_data_clean/): Missing or rows
    cpc,         \* main(): the cleaner that runs next, or "done"
    cerr,        \* main(): the exception that ended it, or "none"
    app_id_map,  \* main(): the anchor mapping returned by clean_app_file
    os_id_map,   \* main(): the mapping returned by clean_os_instances_file
    lpc,         \* run(): "idle", "running", "done" or "failed"
    phase,       \* run(): the write transaction in progress
    i,           \* run(): rows of the current file already sent with tx.run
    store,       \* the graph store: what is committed
    tx,          \* the graph as the open write transaction sees it
    base,        \* the committed graph when the current run() began
    outcome,     \* how each run() so far ended, in order
    log          \* the tx.run calls of the current run(), in order

vars == <<cell, stripped, twice, raw, out, cpc, cerr, app_id_map, os_id_map,
          lpc, phase, i, store, tx, base, outcome, log>>

stripVars == <<cell, stripped, twice>>
cleanVars == <<raw, out, cpc, cerr, app_id_map, os_id_map>>
loadVars  == <<lpc, phase, i, store, tx, base, outcome, log>>

----------------------------------------------------------------------------
(* Bounds *)

MaxLen == 6

MaxApps == 2

MaxDepRows == 2

MaxRuns == 2

----------------------------------------------------------------------------
(* Strings *)

Alphabet == {"n", "r", ":", "A"}

Strings == UNION {[1..k -> Alphabet] : k \in 0..MaxLen}

NrPrefix == <<"n", "r", ":">>

StartsWith(s, p) == Len(s) >= Len(p) /\ SubSeq(s, 1, Len(p)) = p

\* pandas Series.str.replace("nr:", ""): every occurrence, scanning left to right.
RECURSIVE StrReplace(_)
StrReplace(s) ==
    IF s = << >> THEN << >>
    ELSE IF StartsWith(s, NrPrefix)
         THEN StrReplace(SubSeq(s, Len(NrPrefix) + 1, Len(s)))
         ELSE <<Head(s)>> \o StrReplace(Tail(s))

IsSpace(c) == c = " "

RECURSIVE LStrip(_)
LStrip(s) == IF s # << >> /\ IsSpace(Head(s)) THEN LStrip(Tail(s)) ELSE s

RECURSIVE RStrip(_)
RStrip(s) ==
    IF s # << >> /\ IsSpace(s[Len(s)]) THEN RStrip(SubSeq(s, 1, Len(s) - 1)) ELSE s

strip(s) == RStrip(LStrip(s))

----------------------------------------------------------------------------
(* SpecStrip: .str.replace("nr:", "") on one identifier cell *)

NotYet == <<"?">>

InitStrip ==
    /\ cell \in Strings
    /\ stripped = NotYet
    /\ twice = NotYet

StripOnce ==
    /\ stripped = NotYet
    /\ stripped' = StrReplace(cell)
    /\ UNCHANGED <<cell, twice>>
    /\ UNCHANGED <<cleanVars, loadVars>>

StripTwice ==
    /\ stripped # NotYet
    /\ twice = NotYet
    /\ twice' = StrReplace(stripped)
    /\ UNCHANGED <<cell, stripped>>
    /\ UNCHANGED <<cleanVars, loadVars>>

----------------------------------------------------------------------------
(* Rows and files *)

Ids == { <<"A">>, <<" ", "A">>, <<"n", "r", ":", "A">>, <<"A", "n", "r", ":">> }

AppNames == {"Foo"}

OrgNames == {"Org1", "Org2"}

AhdNames == {"Ahd1"}

HitCounts == {3, 7}

Scores == {"0.9"}

CompIDs == {"c1"}

RawApps == [PERSID : Ids, Name : AppNames]

RawOrgs == [PERSID : Ids, CMDB_Name : OrgNames]

RawAhds == [PERSID : Ids, Name : AhdNames, AHDhits : HitCounts]

RawOs == [PERSID : Ids]

RawSims ==
    { ("PersID-1" :> a) @@ ("PersID-2" :> b) @@ ("similaritybertcomp" :> s)
        @@ ("CompID" :> c) : a \in Ids, b \in Ids, s \in Scores, c \in CompIDs }

File(rows) == [exists |-> TRUE, rows |-> rows]

Missing == [exists |-> FALSE, rows |-> << >>]

Range(f) == {f[k] : k \in DOMAIN f}

Max(S) == CHOOSE m \in S : \A n \in S : n <= m

EmptyMap == [s \in {} |-> 0]

\* dict(zip(keys, vals)): a key seen twice keeps the value of its last occurrence.
DictZip(keys, vals) ==
    [s \in Range(keys) |-> vals[Max({k \in DOMAIN keys : keys[k] = s})]]

----------------------------------------------------------------------------
(* src/clean_data.py *)

lookup_id(id_map, key) ==
    IF key \in DOMAIN id_map
    THEN [raised |-> FALSE, value |-> id_map[key]]
    ELSE [raised |-> TRUE, value |-> 0]

\* The mutant of clean_app_file: keys are the 0-based DataFrame index.
clean_app_file_zero_based(rows) ==
    LET persids == [k \in DOMAIN rows |-> strip(rows[k].PERSID)]
        keys    == [k \in DOMAIN rows |-> k - 1]
    IN  [file |-> File([k \in DOMAIN rows |-> [PERSID |-> keys[k], Name |-> rows[k].Name]]),
         map  |-> DictZip(persids, keys)]

clean_app_file(rows) ==
    LET persids == [k \in DOMAIN rows |-> strip(rows[k].PERSID)]
        keys    == [k \in DOMAIN rows |-> k]
    IN  [file |-> File([k \in DOMAIN rows |-> [PERSID |-> keys[k], Name |-> rows[k].Name]]),
         map  |-> DictZip(persids, keys)]

clean_org_file(rows, id_map) ==
    LET ids == [k \in DOMAIN rows |-> lookup_id(id_map, StrReplace(rows[k].PERSID))]
    IN  IF \E k \in DOMAIN rows : ids[k].raised
        THEN [err |-> "KeyError", file |-> Missing]
        ELSE [err |-> "none",
              file |-> File([k \in DOMAIN rows |->
                         [APP_PERSID |-> ids[k].value, CMDB_Name |-> rows[k].CMDB_Name]])]

clean_ahd_file(rows, id_map) ==
    LET ids == [k \in DOMAIN rows |-> lookup_id(id_map, StrReplace(rows[k].PERSID))]
    IN  IF \E k \in DOMAIN rows : ids[k].raised
        THEN [err |-> "KeyError", file |-> Missing]
        ELSE [err |-> "none",
              file |-> File([k \in DOMAIN rows |->
                         [APP_PERSID |-> ids[k].value, Name |-> rows[k].Name,
                          AHDhits |-> rows[k].AHDhits]])]

clean_os_instances_file(rows) ==
    LET keys    == [k \in DOMAIN rows |-> k]
        persids == [k \in DOMAIN rows |-> strip(rows[k].PERSID)]
    IN  [file |-> File([k \in DOMAIN rows |-> [OS_PERSID |-> keys[k]]]),
         map  |-> DictZip(persids, keys)]

clean_similarity_connectedcomps_file(rows, id_map) ==
    LET ids1 == [k \in DOMAIN rows |-> lookup_id(id_map, StrReplace(rows[k]["PersID-1"]))]
        ids2 == [k \in DOMAIN rows |-> lookup_id(id_map, StrReplace(rows[k]["PersID-2"]))]
    IN  IF \E k \in DOMAIN rows : ids1[k].raised \/ ids2[k].raised
        THEN [err |-> "KeyError", file |-> Missing]
        ELSE [err |-> "none",
              file |-> File([k \in DOMAIN rows |->
                         [PERSID_1 |-> ids1[k].value, PERSID_2 |-> ids2[k].value,
                          similaritybertcomp |-> rows[k].similaritybertcomp,
                          CompID |-> rows[k].CompID]])]

\* main(): one action per cleaner call, in the order of lines 108-118.
CleanApp ==
    /\ cpc = "apps" /\ cerr = "none"
    /\ LET r == clean_app_file(raw.apps)
       IN  /\ out' = [out EXCEPT !.apps = r.file]
           /\ app_id_map' = r.map
    /\ cpc' = "orgs"
    /\ UNCHANGED <<raw, cerr, os_id_map>>
    /\ UNCHANGED <<stripVars, loadVars>>

CleanOrg ==
    /\ cpc = "orgs" /\ cerr = "none"
    /\ LET r == clean_org_file(raw.orgs, app_id_map)
       IN  /\ cerr' = r.err
           /\ out' = IF r.err = "none" THEN [out EXCEPT !.orgs = r.file] ELSE out
           /\ cpc' = IF r.err = "none" THEN "ahds" ELSE cpc
    /\ UNCHANGED <<raw, app_id_map, os_id_map>>
    /\ UNCHANGED <<stripVars, loadVars>>

CleanAhd ==
    /\ cpc = "ahds" /\ cerr = "none"
    /\ LET r == clean_ahd_file(raw.ahds, app_id_map)
       IN  /\ cerr' = r.err
           /\ out' = IF r.err = "none" THEN [out EXCEPT !.ahds = r.file] ELSE out
           /\ cpc' = IF r.err = "none" THEN "os" ELSE cpc
    /\ UNCHANGED <<raw, app_id_map, os_id_map>>
    /\ UNCHANGED <<stripVars, loadVars>>

\* The mutant of CleanOs: the OS identifiers are numbered into the anchor mapping.
CleanOsSharedMap ==
    /\ cpc = "os" /\ cerr = "none"
    /\ LET r == clean_os_instances_file(raw.os)
       IN  /\ out' = [out EXCEPT !.os = r.file]
           /\ os_id_map' = r.map
           /\ app_id_map' = r.map @@ app_id_map
    /\ cpc' = "sim"
    /\ UNCHANGED <<raw, cerr>>
    /\ UNCHANGED <<stripVars, loadVars>>

CleanOs ==
    /\ cpc = "os" /\ cerr = "none"
    /\ LET r == clean_os_instances_file(raw.os)
       IN  /\ out' = [out EXCEPT !.os = r.file]
           /\ os_id_map' = r.map
    /\ cpc' = "sim"
    /\ UNCHANGED <<raw, cerr, app_id_map>>
    /\ UNCHANGED <<stripVars, loadVars>>

CleanSim ==
    /\ cpc = "sim" /\ cerr = "none"
    /\ LET r == clean_similarity_connectedcomps_file(raw.sim, app_id_map)
       IN  /\ cerr' = r.err
           /\ out' = IF r.err = "none" THEN [out EXCEPT !.sim = r.file] ELSE out
           /\ cpc' = IF r.err = "none" THEN "done" ELSE cpc
    /\ UNCHANGED <<raw, app_id_map, os_id_map>>
    /\ UNCHANGED <<stripVars, loadVars>>

MainEnded == cpc = "done" \/ cerr # "none"

SeqsOf(S, n) == [1..n -> S]

InitClean ==
    /\ \E na \in 0..MaxApps, no \in 0..MaxDepRows, nh \in 0..MaxDepRows,
          ni \in 0..MaxDepRows, ns \in 0..MaxDepRows :
          /\ no + nh + ni + ns <= MaxDepRows
          /\ raw \in [apps : SeqsOf(RawApps, na), orgs : SeqsOf(RawOrgs, no),
                       ahds : SeqsOf(RawAhds, nh), os : SeqsOf(RawOs, ni),
                       sim : SeqsOf(RawSims, ns)]
    /\ out = [apps |-> Missing, orgs |-> Missing, ahds |-> Missing,
              os |-> Missing, sim |-> Missing]
    /\ cpc = "apps"
    /\ cerr = "none"
    /\ app_id_map = EmptyMap
    /\ os_id_map = EmptyMap

----------------------------------------------------------------------------
(* src/create_graph.py: the Cypher of each phase, applied to one row *)

\* A node is [id, label, props], a relationship [id, type, from, to, props]
\* with from and to the ids of its end nodes; next is the next free id.
EmptyGraph == [indexes |-> {}, nodes |-> {}, rels |-> {}, next |-> 1]

Has(f, c) == c \in DOMAIN f

\* MATCH (n:label {p: v})
Match(g, label, p, v) ==
    {n \in g.nodes : n.label = label /\ Has(n.props, p) /\ n.props[p] = v}

\* The mutant of MergeNode: CREATE, whether or not a node matches.
CreateNode(g, label, p, v) ==
    [g EXCEPT !.nodes = @ \cup {[id |-> g.next, label |-> label, props |-> (p :> v)]},
              !.next = @ + 1]

\* MERGE (n:label {p: v}): one node is created when none matches.
MergeNode(g, label, p, v) ==
    IF Match(g, label, p, v) = {}
    THEN [g EXCEPT !.nodes = @ \cup {[id |-> g.next, label |-> label, props |-> (p :> v)]},
                   !.next = @ + 1]
    ELSE g

\* SET x.q = fields.c: a column the row does not have is null, and setting a
\* property to null removes it.
SetProp(props, q, fields, c) ==
    IF Has(fields, c)
    THEN (q :> fields[c]) @@ props
    ELSE [x \in DOMAIN props \ {q} |-> props[x]]

\* SET n += fields, on the nodes matching (n:label {p: v})
SetAllOnNodes(g, label, p, v, fields) ==
    [g EXCEPT !.nodes = {IF n \in Match(g, label, p, v)
                         THEN [n EXCEPT !.props = fields @@ @] ELSE n : n \in @}]

\* SET n.q = fields.c, on the nodes matching (n:label {p: v})
SetOneOnNodes(g, label, p, v, q, fields, c) ==
    [g EXCEPT !.nodes = {IF n \in Match(g, label, p, v)
                         THEN [n EXCEPT !.props = SetProp(@, q, fields, c)] ELSE n : n \in @}]

Between(g, type, e) == {r \in g.rels : r.type = type /\ r.from = e[1] /\ r.to = e[2]}

PairLe(x, y) == x[1] < y[1] \/ (x[1] = y[1] /\ x[2] <= y[2])

RECURSIVE CreateRels(_, _, _)
CreateRels(g, type, S) ==
    IF S = {} THEN g
    ELSE LET e == CHOOSE x \in S : \A y \in S : PairLe(x, y)
         IN  CreateRels([g EXCEPT !.rels = @ \cup {[id |-> g.next, type |-> type,
                                                    from |-> e[1], to |-> e[2],
                                                    props |-> EmptyMap]},
                                  !.next = @ + 1],
                        type, S \ {e})

\* MERGE (a) -[r:type]-> (b) for each pair of end nodes: a relationship is
\* created between the pairs that have none.
MergeRels(g, type, pairs) ==
    CreateRels(g, type, {e \in pairs : Between(g, type, e) = {}})

\* SET r.q = fields.c, on the relationships of the type between the pairs
SetOneOnRels(g, type, pairs, q, fields, c) ==
    [g EXCEPT !.rels = {IF r.type = type /\ <<r.from, r.to>> \in pairs
                        THEN [r EXCEPT !.props = SetProp(@, q, fields, c)] ELSE r : r \in @}]

Ids_of(nodes) == {n.id : n \in nodes}

_create_indexes(g) ==
    [g EXCEPT !.indexes = @ \cup {"app_id", "org_id", "ahd_id"}]

_create_app_nodes(g, fields) ==
    SetAllOnNodes(MergeNode(g, "App", "PERSID", fields.PERSID),
                  "App", "PERSID", fields.PERSID, fields)

\* The mutant of _create_org_nodes_and_rels: the App is merged, not matched.
_create_org_nodes_and_rels_merge_app(g, fields) ==
    LET g0   == MergeNode(g, "App", "PERSID", fields.APP_PERSID)
        apps == Match(g0, "App", "PERSID", fields.APP_PERSID)
        g1   == SetAllOnNodes(MergeNode(g0, "Org", "CMDB_Name", fields.CMDB_Name),
                              "Org", "CMDB_Name", fields.CMDB_Name, fields)
        orgs == Match(g1, "Org", "CMDB_Name", fields.CMDB_Name)
    IN  MergeRels(g1, "USED_BY", Ids_of(apps) \X Ids_of(orgs))

_create_org_nodes_and_rels(g, fields) ==
    LET apps == Match(g, "App", "PERSID", fields.APP_PERSID)
        g1   == SetAllOnNodes(MergeNode(g, "Org", "CMDB_Name", fields.CMDB_Name),
                              "Org", "CMDB_Name", fields.CMDB_Name, fields)
        orgs == Match(g1, "Org", "CMDB_Name", fields.CMDB_Name)
    IN  IF apps = {} THEN g
        ELSE MergeRels(g1, "USED_BY", Ids_of(apps) \X Ids_of(orgs))

_create_ahd_nodes_and_rels(g, fields) ==
    LET apps  == Match(g, "App", "PERSID", fields.APP_PERSID)
        g1    == SetOneOnNodes(MergeNode(g, "AHD", "name", fields.Name),
                               "AHD", "name", fields.Name, "PERSID", fields, "PERSID")
        ahds  == Match(g1, "AHD", "name", fields.Name)
        pairs == Ids_of(apps) \X Ids_of(ahds)
    IN  IF apps = {} THEN g
        ELSE SetOneOnRels(MergeRels(g1, "HITS", pairs), "HITS", pairs,
                          "nHits", fields, "AHDhits")

_create_similarity_connectedcomps_rels(g, fields) ==
    LET apps1 == Match(g, "App", "PERSID", fields.PERSID_1)
        apps2 == Match(g, "App", "PERSID", fields.PERSID_2)
        pairs == Ids_of(apps1) \X Ids_of(apps2)
    IN  IF pairs = {} THEN g
        ELSE SetOneOnRels(
                 SetOneOnRels(MergeRels(g, "IS_SIMILAR_TO", pairs), "IS_SIMILAR_TO", pairs,
                              "similarityConnectedComp", fields, "similaritybertcomp"),
                 "IS_SIMILAR_TO", pairs, "compID", fields, "CompID")

DataPhases == {"apps", "orgs", "ahds", "sim"}

\* The statement a data phase sends for one row.
Query(p, g, fields) ==
    CASE p = "apps" -> _create_app_nodes(g, fields)
      [] p = "orgs" -> _create_org_nodes_and_rels(g, fields)
      [] p = "ahds" -> _create_ahd_nodes_and_rels(g, fields)
      [] p = "sim"  -> _create_similarity_connectedcomps_rels(g, fields)

----------------------------------------------------------------------------
(* src/create_graph.py: Neo4jConnection.run *)

\* The mutant of NextPhase: the Org phase runs before the App phase.
NextPhaseOrgFirst(p) ==
    CASE p = "indexes" -> "orgs"
      [] p = "orgs"    -> "apps"
      [] p = "apps"    -> "ahds"
      [] p = "ahds"    -> "sim"
      [] p = "sim"     -> "end"

\* run(): the order of the write_transaction calls, lines 27-38.
NextPhase(p) ==
    CASE p = "indexes" -> "apps"
      [] p = "apps"    -> "orgs"
      [] p = "orgs"    -> "ahds"
      [] p = "ahds"    -> "sim"
      [] p = "sim"     -> "end"

\* The mutant of Rollback: every tx.run is committed on its own.
RollbackKeepsRows(committed, pending) == pending

\* write_transaction: an exception leaving the transaction function discards
\* what the transaction wrote.
Rollback(committed, pending) == committed

StartRun ==
    /\ MainEnded
    /\ lpc \in {"idle", "done", "failed"}
    /\ Len(outcome) < MaxRuns
    /\ lpc' = "running"
    /\ phase' = "indexes"
    /\ i' = 0
    /\ tx' = store
    /\ base' = store
    /\ log' = << >>
    /\ UNCHANGED <<store, outcome>>
    /\ UNCHANGED <<stripVars, cleanVars>>

CreateIndexes ==
    /\ lpc = "running" /\ phase = "indexes"
    /\ store' = _create_indexes(tx)
    /\ tx' = store'
    /\ phase' = NextPhase(phase)
    /\ log' = Append(log, <<phase, 0>>)
    /\ UNCHANGED <<lpc, i, base, outcome>>
    /\ UNCHANGED <<stripVars, cleanVars>>

\* read_with_nulls raises FileNotFoundError inside the transaction function.
ReadMissing ==
    /\ lpc = "running" /\ phase \in DataPhases
    /\ ~out[phase].exists
    /\ lpc' = "failed"
    /\ outcome' = Append(outcome, "FileNotFoundError")
    /\ store' = Rollback(store, tx)
    /\ tx' = store'
    /\ UNCHANGED <<phase, i, base, log>>
    /\ UNCHANGED <<stripVars, cleanVars>>

\* One pass of the for loop: tx.run for the next row.
LoadRow ==
    /\ lpc = "running" /\ phase \in DataPhases
    /\ out[phase].exists
    /\ i < Len(out[phase].rows)
    /\ tx' = Query(phase, tx, out[phase].rows[i + 1])
    /\ i' = i + 1
    /\ log' = Append(log, <<phase, i + 1>>)
    /\ UNCHANGED <<lpc, phase, store, base, outcome>>
    /\ UNCHANGED <<stripVars, cleanVars>>

\* tx.run for the next row raises (the store rejects the write or the
\* connection is lost): run() ends with the exception.
StoreError ==
    /\ lpc = "running" /\ phase \in DataPhases
    /\ out[phase].exists
    /\ i < Len(out[phase].rows)
    /\ lpc' = "failed"
    /\ outcome' = Append(outcome, "StoreError")
    /\ store' = Rollback(store, tx)
    /\ tx' = store'
    /\ UNCHANGED <<phase, i, base, log>>
    /\ UNCHANGED <<stripVars, cleanVars>>

\* The transaction function returns: write_transaction commits, run() goes on.
Commit ==
    /\ lpc = "running" /\ phase \in DataPhases
    /\ out[phase].exists
    /\ i = Len(out[phase].rows)
    /\ store' = tx
    /\ i' = 0
    /\ IF NextPhase(phase) = "end"
       THEN /\ lpc' = "done"
            /\ outcome' = Append(outcome, "ok")
            /\ phase' = phase
       ELSE /\ phase' = NextPhase(phase)
            /\ UNCHANGED <<lpc, outcome>>
    /\ UNCHANGED <<tx, base, log>>
    /\ UNCHANGED <<stripVars, cleanVars>>

InitLoad ==
    /\ lpc = "idle"
    /\ phase = "indexes"
    /\ i = 0
    /\ store = EmptyGraph
    /\ tx = EmptyGraph
    /\ base = EmptyGraph
    /\ outcome = << >>
    /\ log = << >>

----------------------------------------------------------------------------
(* Specifications *)

\* The pipeline: main() of clean_data.py, then run() of create_graph.py.
Init ==
    /\ cell = << >> /\ stripped = NotYet /\ twice = NotYet
    /\ InitClean
    /\ InitLoad

Next ==
    \/ CleanApp \/ CleanOrg \/ CleanAhd \/ CleanOs \/ CleanSim
    \/ StartRun \/ CreateIndexes \/ ReadMissing \/ LoadRow \/ StoreError \/ Commit

Spec == Init /\ [][Next]_vars

\* The normalizer alone: main() of clean_data.py.
NextCleanOnly == CleanApp \/ CleanOrg \/ CleanAhd \/ CleanOs \/ CleanSim

SpecClean == Init /\ [][NextCleanOnly]_vars

\* The loader alone, over cleaned files as finished or aborted calls of main()
\* left them in graph_data_clean/: the App file holds the keys 1..N, the
\* dependent files (of the same or of an earlier call) name any key an anchor
\* mapping can hold, and the files from some cleaner on may be missing.
Keys == 1..MaxApps

CleanOrgs == [APP_PERSID : Keys, CMDB_Name : OrgNames]

CleanAhds == [APP_PERSID : Keys, Name : AhdNames, AHDhits : HitCounts]

CleanSims ==
    [PERSID_1 : Keys, PERSID_2 : Keys, similaritybertcomp : Scores, CompID : CompIDs]

CleanedFrom(first, name, rows) ==
    IF first \in {"none"} \cup ( CASE name = "orgs" -> {"ahds", "sim"}
                                   [] name = "ahds" -> {"sim"}
                                   [] name = "sim"  -> {} )
    THEN File(rows) ELSE Missing

InitLoadOnly ==
    /\ cell = << >> /\ stripped = NotYet /\ twice = NotYet
    /\ raw = [apps |-> << >>, orgs |-> << >>, ahds |-> << >>, os |-> << >>, sim |-> << >>]
    /\ cpc = "done" /\ cerr = "none"
    /\ app_id_map = EmptyMap /\ os_id_map = EmptyMap
    /\ \E na \in 0..MaxApps, no \in 0..MaxDepRows, nh \in 0..MaxDepRows,
          ns \in 0..MaxDepRows, first \in {"none", "orgs", "ahds", "sim"} :
          /\ no + nh + ns <= MaxDepRows
          /\ CleanedFrom(first, "orgs", << >>).exists \/ no = 0
          /\ CleanedFrom(first, "ahds", << >>).exists \/ nh = 0
          /\ CleanedFrom(first, "sim", << >>).exists \/ ns = 0
          /\ \E names \in SeqsOf(AppNames, na), orgs \in SeqsOf(CleanOrgs, no),
                ahds \in SeqsOf(CleanAhds, nh), sim \in SeqsOf(CleanSims, ns) :
                out = [apps |-> File([k \in 1..na |-> [PERSID |-> k, Name |-> names[k]]]),
                       orgs |-> CleanedFrom(first, "orgs", orgs),
                       ahds |-> CleanedFrom(first, "ahds", ahds),
                       os   |-> CleanedFrom(first, "sim", << >>),
                       sim  |-> CleanedFrom(first, "sim", sim)]
    /\ InitLoad

NextLoadOnly ==
    StartRun \/ CreateIndexes \/ ReadMissing \/ LoadRow \/ StoreError \/ Commit

SpecLoad == InitLoadOnly /\ [][NextLoadOnly]_vars

\* The cell function alone.
InitStripOnly ==
    /\ InitStrip
    /\ raw = [apps |-> << >>, orgs |-> << >>, ahds |-> << >>, os |-> << >>, sim |-> << >>]
    /\ out = [apps |-> Missing, orgs |-> Missing, ahds |-> Missing,
              os |-> Missing, sim |-> Missing]
    /\ cpc = "apps" /\ cerr = "none"
    /\ app_id_map = EmptyMap /\ os_id_map = EmptyMap
    /\ InitLoad

NextStripOnly == StripOnce \/ StripTwice

SpecStrip == InitStripOnly /\ [][NextStripOnly]_vars

----------------------------------------------------------------------------
(* Properties of the normalizer *)

\* Prefix-stripping as the specification words it: a leading "nr:" is removed,
\* anything else is left as it is.
StripPrefix(s) ==
    IF StartsWith(s, NrPrefix) THEN SubSeq(s, Len(NrPrefix) + 1, Len(s)) ELSE s

CleanerOrder == <<"apps", "orgs", "ahds", "os", "sim", "done">>

Pos(c) == CHOOSE k \in DOMAIN CleanerOrder : CleanerOrder[k] = c

\* The cleaner of file f has returned.
Returned(f) == Pos(cpc) > Pos(f)

\* The cleaner of file f has run: it returned or it raised.
Ran(f) == Returned(f) \/ (cpc = f /\ cerr # "none")

Trimmed(rows) == [k \in DOMAIN rows |-> strip(rows[k].PERSID)]

UniqueNonBlank(ids) ==
    /\ \A k \in DOMAIN ids : ids[k] # << >>
    /\ \A j, k \in DOMAIN ids : ids[j] = ids[k] => j = k

\* C1: once clean_app_file has returned for an anchor file of N rows whose
\* identifiers are, after trimming, non-blank and pairwise different, the cleaned
\* file has N rows, row k carries the key k (so the keys are exactly 1..N, in row
\* order), and the returned mapping is defined on exactly the trimmed
\* identifiers and sends the trimmed identifier of row k to k.
C1_AnchorKeysAreRowPositions ==
    (Returned("apps") /\ UniqueNonBlank(Trimmed(raw.apps))) =>
        /\ out.apps.exists
        /\ Len(out.apps.rows) = Len(raw.apps)
        /\ \A k \in DOMAIN raw.apps : out.apps.rows[k].PERSID = k
        /\ DOMAIN app_id_map = Range(Trimmed(raw.apps))
        /\ \A k \in DOMAIN raw.apps : app_id_map[Trimmed(raw.apps)[k]] = k

\* Two rows, the second of which needs trimming, have been keyed 1 and 2.
C1_Witness ==
    /\ Returned("apps")
    /\ Len(raw.apps) = 2
    /\ UniqueNonBlank(Trimmed(raw.apps))
    /\ raw.apps[2].PERSID = <<" ", "A">>
    /\ app_id_map[<<"A">>] = 2
    /\ out.apps.rows[2].PERSID = 2

\* The identifiers a row of a dependent file holds, by file.
RefsOf(f, row) ==
    IF f = "sim" THEN <<row["PersID-1"], row["PersID-2"]>> ELSE <<row.PERSID>>

\* The foreign keys a row of a cleaned dependent file holds, by file.
KeysOf(f, row) ==
    IF f = "sim" THEN <<row.PERSID_1, row.PERSID_2>> ELSE <<row.APP_PERSID>>

RowKnown(f, row) ==
    \A c \in DOMAIN RefsOf(f, row) : StripPrefix(RefsOf(f, row)[c]) \in DOMAIN app_id_map

\* C2: for each dependent file (organization, AHD, similarity) whose cleaner
\* has run: if some row's identifier with the prefix stripped is absent from the
\* anchor mapping, the cleaner raised the lookup-miss error and wrote no cleaned
\* file; otherwise the cleaned file was written and every row's foreign key is
\* the anchor mapping's value for the row's prefix-stripped identifier.
C2_StrictLookupOfStrippedIdentifier ==
    \A f \in {"orgs", "ahds", "sim"} :
        Ran(f) =>
            IF \E k \in DOMAIN raw[f] : ~RowKnown(f, raw[f][k])
            THEN cpc = f /\ cerr = "KeyError" /\ ~out[f].exists
            ELSE /\ out[f].exists
                 /\ Len(out[f].rows) = Len(raw[f])
                 /\ \A k \in DOMAIN raw[f] : \A c \in DOMAIN RefsOf(f, raw[f][k]) :
                        KeysOf(f, out[f].rows[k])[c]
                            = app_id_map[StripPrefix(RefsOf(f, raw[f][k])[c])]

\* C8: after clean_app_file has returned, no step of main() changes the anchor
\* mapping; and once clean_os_instances_file has returned, OS row k carries the
\* key k and the OS mapping sends each trimmed OS identifier to the position of
\* its last row, whatever key the anchor mapping gives the same string.
OsKeysAreOsRowPositions ==
    /\ out.os.exists
    /\ Len(out.os.rows) = Len(raw.os)
    /\ \A k \in DOMAIN raw.os : out.os.rows[k].OS_PERSID = k
    /\ DOMAIN os_id_map = Range(Trimmed(raw.os))
    /\ \A k \in DOMAIN raw.os :
          os_id_map[Trimmed(raw.os)[k]]
              = Max({j \in DOMAIN raw.os : Trimmed(raw.os)[j] = Trimmed(raw.os)[k]})

C8_AnchorMapFrozenOsKeysOwn ==
    /\ [][cpc # "apps" => app_id_map' = app_id_map]_vars
    /\ [](Returned("os") => OsKeysAreOsRowPositions)

\* main() has ended with an OS identifier that is also an application
\* identifier, keyed 1 as an OS instance and 2 as an application.
C8_Witness ==
    /\ cpc = "done"
    /\ Len(raw.os) = 1
    /\ Trimmed(raw.os)[1] \in DOMAIN app_id_map
    /\ app_id_map[Trimmed(raw.os)[1]] = 2
    /\ os_id_map[Trimmed(raw.os)[1]] = 1
    /\ out.os.rows[1].OS_PERSID = 1

----------------------------------------------------------------------------
(* Properties of the cell function *)

\* C3: prefix-stripping as the dependent-file cleaners apply it removes a
\* leading "nr:" and nothing else, leaves an identifier that does not start with
\* "nr:" unchanged, and applied twice gives what it gives applied once.
C3_StripIsPrefixOnlyAndIdempotent ==
    /\ stripped # NotYet => stripped = StripPrefix(cell)
    /\ twice # NotYet => twice = stripped

----------------------------------------------------------------------------
(* Properties of the loader *)

PhaseSeq == <<"indexes", "apps", "orgs", "ahds", "sim">>

PhaseIdx(p) == CHOOSE k \in DOMAIN PhaseSeq : PhaseSeq[k] = p

DepPhases == {"orgs", "ahds", "sim"}

\* The graph after the statements of the first n rows, sent in order.
RECURSIVE ApplyRows(_, _, _, _)
ApplyRows(p, g, rows, n) ==
    IF n = 0 THEN g ELSE Query(p, ApplyRows(p, g, rows, n - 1), rows[n])

\* The graph after the first k phases, each with every row of its file.
RECURSIVE AfterPhases(_, _)
AfterPhases(g, k) ==
    IF k = 0 THEN g
    ELSE IF PhaseSeq[k] = "indexes" THEN _create_indexes(AfterPhases(g, k - 1))
    ELSE ApplyRows(PhaseSeq[k], AfterPhases(g, k - 1),
                   out[PhaseSeq[k]].rows, Len(out[PhaseSeq[k]].rows))

\* The phases of the current run() that have ended with a commit.
Completed == IF lpc = "done" THEN Len(PhaseSeq) ELSE PhaseIdx(phase) - 1

RunEnded == lpc \in {"done", "failed"}

LabelNodes(g, label) == {n \in g.nodes : n.label = label}

TypeRels(g, type) == {r \in g.rels : r.type = type}

Counts(g) ==
    [App  |-> Cardinality(LabelNodes(g, "App")),
     Org  |-> Cardinality(LabelNodes(g, "Org")),
     AHD  |-> Cardinality(LabelNodes(g, "AHD")),
     USED_BY |-> Cardinality(TypeRels(g, "USED_BY")),
     HITS |-> Cardinality(TypeRels(g, "HITS")),
     IS_SIMILAR_TO |-> Cardinality(TypeRels(g, "IS_SIMILAR_TO"))]

\* C4: when a run() has ended that was started on the store a first run() left
\* (a first run that ended by itself, on what the files hold, not cut short by an
\* error of the store), the numbers of App, Org and AHD nodes and of USED_BY, HITS
\* and IS_SIMILAR_TO relationships are those the store held when it started.
C4_RerunKeepsCounts ==
    (Len(outcome) >= 2 /\ RunEnded /\ outcome[1] # "StoreError") =>
        Counts(store) = Counts(base)

\* Two complete runs over files that make nodes of two labels and a relationship.
C4_Witness ==
    /\ outcome = <<"ok", "ok">>
    /\ lpc = "done"
    /\ Counts(store).App >= 1
    /\ Counts(store).Org >= 1
    /\ Counts(store).USED_BY >= 1

AppKeys(g) == {n.props.PERSID : n \in {m \in LabelNodes(g, "App") : Has(m.props, "PERSID")}}

DepKeys(p, row) == IF p = "sim" THEN {row.PERSID_1, row.PERSID_2} ELSE {row.APP_PERSID}

\* The row names an App key that no App node of the graph carries.
Dangling(p, row, g) == ~(DepKeys(p, row) \subseteq AppKeys(g))

\* C6 as stated: once the statement of a row of the organization, AHD or
\* similarity file that names an App key without an App node has been sent, the
\* run has failed.
C6_DanglingRowFailsThePhase ==
    \A k \in DOMAIN log :
        (log[k][1] \in DepPhases /\ Dangling(log[k][1], out[log[k][1]].rows[log[k][2]], tx))
            => lpc = "failed"

\* C6 as amended: the statement of such a row matches nothing: the step that
\* sends it leaves the graph of the transaction as it was, raises nothing, and
\* the phase stays in progress with the next row.
C6_DanglingRowIsSkipped ==
    [][ ( /\ lpc = "running" /\ phase \in DepPhases
          /\ out[phase].exists /\ i < Len(out[phase].rows)
          /\ i' = i + 1
          /\ Dangling(phase, out[phase].rows[i + 1], tx) )
        => (tx' = tx /\ lpc' = "running" /\ phase' = phase) ]_vars

\* A run has completed although one of the rows it sent named a missing App.
C6_Witness ==
    /\ lpc = "done"
    /\ \E k \in DOMAIN log :
          /\ log[k][1] \in DepPhases
          /\ Dangling(log[k][1], out[log[k][1]].rows[log[k][2]], store)

\* The tx.run calls of a run() in which nothing fails, in order.
RECURSIVE Canon(_)
Canon(k) ==
    IF k = 0 THEN << >>
    ELSE IF PhaseSeq[k] = "indexes" THEN Canon(k - 1) \o << <<"indexes", 0>> >>
    ELSE Canon(k - 1) \o [j \in 1..Len(out[PhaseSeq[k]].rows) |-> <<PhaseSeq[k], j>>]

IsPrefix(s, u) == Len(s) <= Len(u) /\ SubSeq(u, 1, Len(s)) = s

\* C9: the statements a run() has sent are a prefix of: the index setup, every
\* App row, every Org row, every AHD row, every similarity row; and when the
\* run has failed in a phase it has sent nothing of a later phase, and what the
\* phases before it wrote is in the store.
C9_PhasesInStrictOrder ==
    /\ IsPrefix(log, Canon(Len(PhaseSeq)))
    /\ lpc = "failed" =>
          LET before == AfterPhases(base, PhaseIdx(phase) - 1)
          IN  /\ \A k \in DOMAIN log : PhaseIdx(log[k][1]) <= PhaseIdx(phase)
              /\ before.nodes \subseteq store.nodes
              /\ before.rels \subseteq store.rels
              /\ before.indexes \subseteq store.indexes

\* The first run has failed in the AHD phase after the App and Org phases wrote.
C9_Witness ==
    /\ lpc = "failed"
    /\ Len(outcome) = 1
    /\ phase = "ahds"
    /\ Len(log) >= 3
    /\ TypeRels(store, "USED_BY") # {}

\* C10: whenever a run() is in progress or has ended, the store holds exactly
\* what the phases that have committed wrote, each with every row of its file,
\* and nothing of the phase in progress or failed.
C10_PhaseAllOrNothing ==
    lpc # "idle" => store = AfterPhases(base, Completed)

\* The Org phase failed at its second row, after a first row that writes.
C10_Witness ==
    /\ lpc = "failed"
    /\ phase = "orgs"
    /\ i = 1
    /\ outcome[Len(outcome)] = "StoreError"
    /\ Query("orgs", store, out.orgs.rows[1]) # store

----------------------------------------------------------------------------
(* Properties of the pipeline *)

AppIds == Range(Trimmed(raw.apps))

\* The row names an application identifier, bare or behind the prefix.
References(row) ==
    \/ row.PERSID \in AppIds
    \/ StartsWith(row.PERSID, NrPrefix) /\ StripPrefix(row.PERSID) \in AppIds

\* The key of the application a referencing row names.
KeyOf(row) ==
    LET s == IF row.PERSID \in AppIds THEN row.PERSID ELSE StripPrefix(row.PERSID)
    IN  CHOOSE k \in DOMAIN raw.apps : Trimmed(raw.apps)[k] = s

FirstRunEnded == MainEnded /\ Len(outcome) = 1 /\ RunEnded /\ outcome[1] # "StoreError"

\* C5: after main() and a first run() into the empty store, for an application
\* file of unique identifiers (here also: trimmed already, none starting with
\* "nr:") and an organization file whose every row names one of them, bare or
\* behind "nr:", and no other dependent rows: the App nodes are one per
\* application row, keyed by its position; the Org nodes one per CMDB_Name; the
\* USED_BY relationships one per pair of key and name in the organization rows.
C5_RoundTrip ==
    ( /\ FirstRunEnded
      /\ UniqueNonBlank(Trimmed(raw.apps))
      /\ \A k \in DOMAIN raw.apps :
            raw.apps[k].PERSID = strip(raw.apps[k].PERSID)
            /\ ~StartsWith(raw.apps[k].PERSID, NrPrefix)
      /\ \A k \in DOMAIN raw.orgs : References(raw.orgs[k])
      /\ raw.ahds = << >> /\ raw.os = << >> /\ raw.sim = << >> )
    =>
    /\ {n.props : n \in LabelNodes(store, "App")}
          = {[PERSID |-> k, Name |-> raw.apps[k].Name] : k \in DOMAIN raw.apps}
    /\ Counts(store).App = Len(raw.apps)
    /\ {n.props.CMDB_Name : n \in LabelNodes(store, "Org")}
          = {raw.orgs[k].CMDB_Name : k \in DOMAIN raw.orgs}
    /\ Counts(store).Org = Cardinality({raw.orgs[k].CMDB_Name : k \in DOMAIN raw.orgs})
    /\ { <<a.props.PERSID, o.props.CMDB_Name>> :
            <<a, o>> \in { <<x, y>> \in LabelNodes(store, "App") \X LabelNodes(store, "Org") :
                              Between(store, "USED_BY", <<x.id, y.id>>) # {} } }
          = { <<KeyOf(raw.orgs[k]), raw.orgs[k].CMDB_Name>> : k \in DOMAIN raw.orgs }
    /\ Counts(store).USED_BY
          = Cardinality({ <<KeyOf(raw.orgs[k]), raw.orgs[k].CMDB_Name>> : k \in DOMAIN raw.orgs })

\* C7: after main() and a complete first run(), for every row of the cleaned
\* AHD file there is an AHD node with the row's name that carries an integer
\* PERSID property with the row's integer, and a HITS relationship from the
\* row's App node to it, whose nHits is the row's hit count when no later row
\* names the same App and AHD.
C7_AhdNodeCarriesItsId ==
    (FirstRunEnded /\ lpc = "done") =>
        \A k \in DOMAIN out.ahds.rows :
            LET row == out.ahds.rows[k]
            IN  \A a \in Match(store, "App", "PERSID", row.APP_PERSID) :
                  \E n \in Match(store, "AHD", "name", row.Name) :
                      /\ Has(n.props, "PERSID")
                      /\ n.props.PERSID = row.APP_PERSID
                      /\ \E r \in Between(store, "HITS", <<a.id, n.id>>) :
                            (\A j \in DOMAIN out.ahds.rows :
                                (j > k /\ out.ahds.rows[j].Name = row.Name
                                       /\ out.ahds.rows[j].APP_PERSID = row.APP_PERSID)
                                    => out.ahds.rows[j].AHDhits = row.AHDhits)
                            => (Has(r.props, "nHits") /\ r.props.nHits = row.AHDhits)

====
